---------------------------- MODULE Spec2Model ----------------------------
(***************************************************************************)
(* Model of the competition-intelligence platform: the scenario-driven     *)
(* synthetic data generator (competition_data.py), the in-app generator,   *)
(* the cached table, the threshold anomaly detector (app.py) and the       *)
(* insight extractor.                                                      *)
(*                                                                         *)
(* Numbers.  Dates are day numbers within 2024 (1 = Jan 1).  Base prices   *)
(* are kept in tenths of a riyal; a price before rounding is an exact      *)
(* integer number of PriceUnit-ths of a riyal, a rounded price is in       *)
(* hundredths.  A normal draw N(mu, sigma) is mu + sigma * z / 1000 for a  *)
(* standard variate z given in thousandths of a sigma.                     *)
(***************************************************************************)
EXTENDS Integers, Sequences, FiniteSets, TLC

VARIABLES
    gen,      \* which generator the iteration under study belongs to
    key,      \* loop variables (date, product, region, company) of the iteration
    row,      \* the dict appended by the iteration, or NoRow
    taken,    \* which branch of apply_scenarios / generate_complaints ran
    rng,      \* state of numpy's global random generator
    horizon,  \* number of days of a date range the model iterates
    returned, \* per generator, the table its latest invocation returned
    runs,     \* per generator, the number of invocations so far
    others,   \* number of draws other code took from the random generator
    df,       \* the table passed to detect_anomalies_simple / get_analysis_insights
    result,   \* what the call on df returned, or NoResult
    cached,   \* the table st.cache_data holds for load_data, or NoTable
    main_data,      \* main's local `data`
    filtered_data,  \* main's local `filtered_data`
    view      \* the sidebar's selection of the last rerun

rowVars == <<gen, key, row, taken>>
genVars == <<rng, horizon, returned, runs, others>>
dfVars == <<df, result>>
sessionVars == <<cached, main_data, filtered_data, view>>
vars == <<rowVars, genVars, dfVars, sessionVars>>

-----------------------------------------------------------------------------
(* Bounds of the model *)

\* largest |z| of a normal draw, in sigmas
MaxSigma == 6
\* largest value of a Poisson draw
MaxPoisson == 1
\* days of a date range the bounded generator runs iterate
MaxDays == 2
\* generator invocations in one behaviour
MaxRuns == 2
\* draws other code takes from the random generator in one behaviour
MaxOthers == 1
\* states the random generator can be in when the process starts: 0..MaxSeed
MaxSeed == 1

\* standard normal variates the model draws from, in thousandths of a sigma
ZValues == {-(MaxSigma * 1000), -2500, 0, 1, MaxSigma * 1000}
PoissonValues == 0..MaxPoisson

-----------------------------------------------------------------------------
(* Calendar: pd.date_range(start, end, freq='D') and datetime(2024, m, d) *)

Year == 2024

IsLeap(y) == (y % 4 = 0 /\ y % 100 # 0) \/ y % 400 = 0

DaysInMonth(y, m) ==
    IF m = 2 THEN (IF IsLeap(y) THEN 29 ELSE 28)
    ELSE IF m \in {4, 6, 9, 11} THEN 30 ELSE 31

RECURSIVE DaysBefore(_, _)
DaysBefore(y, m) == IF m = 1 THEN 0 ELSE DaysBefore(y, m - 1) + DaysInMonth(y, m - 1)

\* datetime(2024, m, d) as a day number of the year
datetime(m, d) == DaysBefore(Year, m) + d

\* a slip: the end of the range left out
date_range_exclusive(m1, d1, m2, d2) ==
    [i \in 1..(datetime(m2, d2) - datetime(m1, d1)) |-> datetime(m1, d1) + i - 1]

\* pd.date_range(start=(m1,d1), end=(m2,d2), freq='D'): both ends inclusive
date_range(m1, d1, m2, d2) ==
    [i \in 1..(datetime(m2, d2) - datetime(m1, d1) + 1) |-> datetime(m1, d1) + i - 1]

-----------------------------------------------------------------------------
(* competition_data.py: CompetitionDataGenerator.__init__ *)

products == <<"sugar", "rice", "cooking oil", "flour", "coffee", "tea", "milk", "bread">>
regions == <<"Riyadh", "Jeddah", "Dammam", "Makkah", "Madinah", "Qassim", "Asir", "Hail">>
companies == <<"National Food Co.", "Modern Marketing Est.", "Integrated Distribution Co.",
               "Central Markets Group", "United Consumer Co.", "Advanced Trade Est.",
               "Major Retail Co.", "Comprehensive Supply Group">>

(* app.py: CompetitionDataGenerator.__init__ *)
app_products == <<"sugar", "rice", "cooking oil", "flour", "coffee">>
app_regions == <<"Riyadh", "Jeddah", "Dammam", "Makkah", "Madinah">>
app_companies == <<"National Food Co.", "Modern Marketing Est.",
                   "Integrated Distribution Co.", "Central Markets Group">>

\* base_prices, in tenths of a riyal
base_prices == [p \in {"sugar", "rice", "cooking oil", "flour", "coffee", "tea", "milk", "bread"} |->
    CASE p = "sugar" -> 35 [] p = "rice" -> 80 [] p = "cooking oil" -> 150
      [] p = "flour" -> 25 [] p = "coffee" -> 250 [] p = "tea" -> 120
      [] p = "milk" -> 40 [] p = "bread" -> 10]

Range(s) == {s[i] : i \in DOMAIN s}

-----------------------------------------------------------------------------
(* Arithmetic helpers *)

Max(a, b) == IF a >= b THEN a ELSE b
Min(a, b) == IF a <= b THEN a ELSE b

\* round(x, 2) of Python: x is n / unit hundredths; ties go to the even neighbour
RoundHalfEven(n, unit) ==
    LET q == n \div unit
        r == n % unit
    IN  IF 2 * r < unit THEN q
        ELSE IF 2 * r > unit THEN q + 1
        ELSE IF q % 2 = 0 THEN q ELSE q + 1

\* np.random.normal(mu, sigma) for the variate z, in units where mu and sigma are
\* given times 1000
Normal(mu, sigma, z) == mu * 1000 + sigma * z

-----------------------------------------------------------------------------
(* competition_data.py: the scenario rule set *)

\* units of a riyal in which apply_scenarios' price is exact
PriceUnit == 1000000

\* the branch of apply_scenarios' if-chain that runs for a combination (1..6)
ScenarioBranch(date, product, region, company) ==
    IF region = "Riyadh" /\ company = "National Food Co."
       /\ date >= datetime(6, 1) /\ date <= datetime(8, 31) THEN 1
    ELSE IF region = "Jeddah" /\ company = "Modern Marketing Est."
       /\ date >= datetime(3, 1) /\ date <= datetime(5, 31) THEN 2
    ELSE IF product \in {"sugar", "flour"} /\ date >= datetime(9, 1)
       /\ company \in {"Integrated Distribution Co.", "Central Markets Group",
                       "United Consumer Co."} THEN 3
    ELSE IF region = "Hail" /\ product = "cooking oil" THEN 4
    ELSE IF company = "Comprehensive Supply Group" /\ product = "coffee" THEN 5
    ELSE 6

\* whether apply_scenarios consumes a normal draw for the combination
PriceDraws(date, product, region, company) ==
    IF ScenarioBranch(date, product, region, company) \in {5, 6} THEN 1 ELSE 0

\* the multiplied price of branch b of apply_scenarios
BranchPrice(b, base_price, z) ==
    CASE b = 1 -> base_price * 140000
      [] b = 2 -> base_price * 60000
      [] b = 3 -> base_price * 125000
      [] b = 4 -> base_price * 130000
      [] b = 5 -> base_price * (100000 + 20 * z)
      [] b = 6 -> base_price * (100000 + 5 * z)

\* apply_scenarios without the final max(): the multiplied price
ScenarioPrice(date, product, region, company, base_price, z) ==
    BranchPrice(ScenarioBranch(date, product, region, company), base_price, z)

\* a plausible slip: the price is returned without the floor
apply_scenarios_nofloor(date, product, region, company, base_price, z) ==
    ScenarioPrice(date, product, region, company, base_price, z)

\* apply_scenarios: price in PriceUnit-ths; z is the variate of the one normal draw
apply_scenarios(date, product, region, company, base_price, z) ==
    Max(ScenarioPrice(date, product, region, company, base_price, z), base_price * 50000)

\* the branch of generate_complaints that runs: which extra Poisson is drawn
ComplaintBranch(date, product, region, company) ==
    IF region = "Riyadh" /\ company = "National Food Co." /\ date >= datetime(6, 1)
    THEN "poisson5"
    ELSE IF company = "Modern Marketing Est." /\ product \in {"milk", "bread"}
    THEN "poisson3"
    ELSE "none"

\* generate_complaints: k1 is the Poisson(2) draw, k2 the extra draw of the branch
generate_complaints(date, product, region, company, k1, k2) ==
    Max(IF ComplaintBranch(date, product, region, company) = "none" THEN k1 ELSE k1 + k2,
        0)

\* the branch of generate_market_share that runs
ShareBranch(product, region, company) ==
    IF company = "National Food Co." /\ region = "Riyadh" /\ product \in {"sugar", "flour"}
    THEN "dominant"
    ELSE IF region = "Jeddah" /\ product = "coffee" THEN "small"
    ELSE "base"

\* base_share of branch sb of generate_market_share, in 1/100000: z1 is the variate
\* of the first draw N(12.5, 3), z2 that of the branch's second draw N(35, 5) or N(8, 2)
BranchShare(sb, z1, z2) ==
    CASE sb = "dominant" -> Normal(3500, 500, z2)
      [] sb = "small" -> Normal(800, 200, z2)
      [] sb = "base" -> Normal(1250, 300, z1)

\* generate_market_share, in 1/100000
generate_market_share(product, region, company, z1, z2) ==
    Max(Min(BranchShare(ShareBranch(product, region, company), z1, z2), 5000000), 100000)

\* get_scenario_type: its own if-chain, written apart from apply_scenarios'
get_scenario_type(date, product, region, company) ==
    IF region = "Riyadh" /\ company = "National Food Co." /\ date >= datetime(6, 1)
    THEN "unjustified price increase"
    ELSE IF region = "Jeddah" /\ company = "Modern Marketing Est." /\ date >= datetime(3, 1)
    THEN "suspicious price drop (dumping)"
    ELSE IF product \in {"sugar", "flour"} /\ date >= datetime(9, 1)
       /\ company \in {"Integrated Distribution Co.", "Central Markets Group",
                       "United Consumer Co."}
    THEN "synchronized price change (collusion)"
    ELSE IF region = "Hail" /\ product = "cooking oil" THEN "geographic price disparity"
    ELSE IF company = "Comprehensive Supply Group" /\ product = "coffee"
    THEN "severe price volatility"
    ELSE "normal"

\* one iteration of generate_comprehensive_data's loop body: the appended dict
\* (price and market_share in hundredths after round(., 2))
ComprehensiveRow(date, product, region, company, zp, k1, k2, z1, z2) ==
    [date |-> date, product |-> product, region |-> region, company |-> company,
     price |-> RoundHalfEven(apply_scenarios(date, product, region, company,
                                             base_prices[product], zp),
                             PriceUnit \div 100),
     complaint_count |-> generate_complaints(date, product, region, company, k1, k2),
     market_share |-> RoundHalfEven(generate_market_share(product, region, company, z1, z2),
                                    1000),
     scenario_type |-> get_scenario_type(date, product, region, company)]

-----------------------------------------------------------------------------
(* app.py: the loop body of generate_data *)

\* units of a riyal in which generate_data's price is exact
AppPriceUnit == 10000000

\* the scenario multiplier of generate_data, in tenths
AppMultiplier(region, company) ==
    IF region = "Riyadh" /\ company = "National Food Co." THEN 13
    ELSE IF region = "Jeddah" /\ company = "Modern Marketing Est." THEN 7
    ELSE 10

\* price after the scenario, the N(0, 0.05) variation and max(price, base_price * 0.8)
AppPrice(product, region, company, z) ==
    Max(base_prices[product] * AppMultiplier(region, company) * (100000 + 5 * z),
        base_prices[product] * 800000)

\* market_share = max(min(N(15, 5), 40), 5), in 1/100000
AppMarketShare(z) == Max(Min(Normal(1500, 500, z), 4000000), 500000)

\* one iteration of generate_data's loop body: the appended dict (no scenario_type)
DataRow(date, product, region, company, zp, k, zs) ==
    [date |-> date, product |-> product, region |-> region, company |-> company,
     price |-> RoundHalfEven(AppPrice(product, region, company, zp), AppPriceUnit \div 100),
     complaint_count |-> k,
     market_share |-> RoundHalfEven(AppMarketShare(zs), 1000)]

-----------------------------------------------------------------------------
(* numpy's global random generator: a deterministic stream.  The state after *)
(* np.random.seed(s) depends on s alone; every draw is a function of the     *)
(* state and moves it on.                                                    *)

RngModulus == 65537

\* np.random.seed(42)
SeedValue == 42
seed(s) == s % RngModulus

\* the state after one draw
Advance(s) == (s * 75 + 74) % RngModulus

ZSeq == <<-(MaxSigma * 1000), -2500, 0, 1, MaxSigma * 1000>>

\* the standard variate np.random.normal returns when the draw leaves state s
NormalAt(s) == ZSeq[((s \div 7) % Len(ZSeq)) + 1]
\* the value np.random.poisson returns when the draw leaves state s
PoissonAt(s) == (s \div 11) % (MaxPoisson + 1)

-----------------------------------------------------------------------------
(* The generators: the nested loops over dates, products, regions, companies *)

NoRow == [none |-> TRUE]
NoKey == [none |-> TRUE]
NoTable == <<[none |-> TRUE]>>
Generators == {"comprehensive", "app"}

\* the first n elements of a sequence (the model's bound on a date range)
Truncate(s, n) == SubSeq(s, 1, Min(n, Len(s)))

Products(g) == IF g = "comprehensive" THEN products ELSE app_products
Regions(g) == IF g = "comprehensive" THEN regions ELSE app_regions
Companies(g) == IF g = "comprehensive" THEN companies ELSE app_companies

\* dates = pd.date_range(...) of either generator
DateRangeOf(g) ==
    IF g = "comprehensive" THEN date_range(1, 1, 12, 31) ELSE date_range(1, 1, 3, 31)

\* the random generator's states along one iteration of generate_comprehensive_data,
\* s0 before it: s1 after apply_scenarios, s2 after Poisson(2), s3 after the extra
\* Poisson, s4 after N(12.5, 3), s5 after the branch's second normal
AfterPrice(k, s0) ==
    IF PriceDraws(k.date, k.product, k.region, k.company) = 1 THEN Advance(s0) ELSE s0
AfterExtraPoisson(k, s2) ==
    IF ComplaintBranch(k.date, k.product, k.region, k.company) = "none"
    THEN s2 ELSE Advance(s2)
AfterSecondNormal(k, s4) ==
    IF ShareBranch(k.product, k.region, k.company) = "base" THEN s4 ELSE Advance(s4)

ComprehensiveResult(k, s1, s2, s3, s4, s5) ==
    [row |-> ComprehensiveRow(k.date, k.product, k.region, k.company,
                              NormalAt(s1), PoissonAt(s2), PoissonAt(s3),
                              NormalAt(s4), NormalAt(s5)),
     rng |-> s5]
ComprehensiveShare(k, s1, s2, s3, s4) ==
    ComprehensiveResult(k, s1, s2, s3, s4, AfterSecondNormal(k, s4))
ComprehensiveComplaints(k, s1, s2, s3) == ComprehensiveShare(k, s1, s2, s3, Advance(s3))
ComprehensivePoisson(k, s1, s2) == ComprehensiveComplaints(k, s1, s2, AfterExtraPoisson(k, s2))
ComprehensivePrice(k, s1) == ComprehensivePoisson(k, s1, Advance(s1))

\* the states along one iteration of generate_data: normal, Poisson(2), normal
DataResult(k, s1, s2, s3) ==
    [row |-> DataRow(k.date, k.product, k.region, k.company,
                     NormalAt(s1), PoissonAt(s2), NormalAt(s3)),
     rng |-> s3]
DataShare(k, s1, s2) == DataResult(k, s1, s2, Advance(s2))
DataPrice(k, s1) == DataShare(k, s1, Advance(s1))

\* the dict one iteration builds from state s0 of the random generator, and the
\* state after it
Iteration(g, s0, k) ==
    IF g = "comprehensive" THEN ComprehensivePrice(k, AfterPrice(k, s0))
    ELSE DataPrice(k, Advance(s0))

\* data.append(...) of an iteration's dict
Appended(st, it) == [data |-> Append(st.data, it.row), rng |-> it.rng]

\* a slip of indentation: data.append(...) left outside the innermost loop, so that
\* only the last company's dict of every region is appended
AppendedLast(g, st, it) ==
    [data |-> IF it.row.company = Companies(g)[Len(Companies(g))]
              THEN Append(st.data, it.row) ELSE st.data,
     rng |-> it.rng]
LoopBody_dedented(g, st, d, p, r, c) ==
    AppendedLast(g, st, Iteration(g, st.rng, [date |-> d, product |-> p, region |-> r,
                                              company |-> c]))

\* the body of the innermost loop: st holds the list `data` and the random
\* generator's state
LoopBody(g, st, d, p, r, c) ==
    Appended(st, Iteration(g, st.rng, [date |-> d, product |-> p, region |-> r,
                                       company |-> c]))

\* an iteration has run and left the random generator in a state
Ran(st) == st.rng \in 0..(RngModulus - 1)

RECURSIVE CompanyLoop(_, _, _, _, _, _)
CompanyNext(g, nx, d, p, r, i) == IF Ran(nx) THEN CompanyLoop(g, nx, d, p, r, i) ELSE nx
\* for company in self.companies (from position i on)
CompanyLoop(g, st, d, p, r, i) ==
    IF i > Len(Companies(g)) THEN st
    ELSE CompanyNext(g, LoopBody(g, st, d, p, r, Companies(g)[i]), d, p, r, i + 1)

RECURSIVE RegionLoop(_, _, _, _, _)
RegionNext(g, nx, d, p, i) == IF Ran(nx) THEN RegionLoop(g, nx, d, p, i) ELSE nx
\* for region in self.regions
RegionLoop(g, st, d, p, i) ==
    IF i > Len(Regions(g)) THEN st
    ELSE RegionNext(g, CompanyLoop(g, st, d, p, Regions(g)[i], 1), d, p, i + 1)

RECURSIVE ProductLoop(_, _, _, _)
ProductNext(g, nx, d, i) == IF Ran(nx) THEN ProductLoop(g, nx, d, i) ELSE nx
\* for product in self.products
ProductLoop(g, st, d, i) ==
    IF i > Len(Products(g)) THEN st
    ELSE ProductNext(g, RegionLoop(g, st, d, Products(g)[i], 1), d, i + 1)

RECURSIVE DateLoop(_, _, _, _)
DateNext(g, nx, ds, i) == IF Ran(nx) THEN DateLoop(g, nx, ds, i) ELSE nx
\* for date in dates
DateLoop(g, st, ds, i) ==
    IF i > Len(ds) THEN st
    ELSE DateNext(g, ProductLoop(g, st, ds[i], 1), ds, i + 1)

\* a slip: the generator runs on whatever state the random generator is in
Reseed_missing(s) == s

\* np.random.seed(42) at the head of both generators
Reseed(s) == seed(SeedValue)

\* a call of a generator from the state s of the random generator: the seed, the
\* date range, data = [], the loops; the returned table and the state left behind
Generated(g, s, n) ==
    DateLoop(g, [data |-> <<>>, rng |-> Reseed(s)], Truncate(DateRangeOf(g), n), 1)

GenIdle ==
    /\ rng = 0 /\ horizon = 0 /\ others = 0
    /\ returned = [g \in Generators |-> NoTable]
    /\ runs = [g \in Generators |-> 0]

RowIdle == gen = "comprehensive" /\ key = NoKey /\ row = NoRow /\ taken = NoRow

NoResult == <<[none |-> TRUE]>>
NoView == [none |-> TRUE]
DfIdle == df = <<>> /\ result = NoResult
SessionIdle ==
    cached = NoTable /\ main_data = NoTable /\ filtered_data = NoTable /\ view = NoView

\* the call returns: the table is recorded and the random generator is left where
\* the last draw put it
Returns(g, st) ==
    /\ returned' = [returned EXCEPT ![g] = st.data]
    /\ rng' = st.rng
    /\ runs' = [runs EXCEPT ![g] = @ + 1]

Generate(g) ==
    /\ runs["comprehensive"] + runs["app"] < MaxRuns
    /\ Returns(g, Generated(g, rng, horizon))
    /\ UNCHANGED <<rowVars, horizon, others, dfVars, sessionVars>>

\* generator.generate_comprehensive_data(); the model iterates at most MaxDays
\* days of its 366
generate_comprehensive_data == horizon <= MaxDays /\ Generate("comprehensive")

\* generator.generate_data(); over its whole range of 91 days the model calls it once
generate_data == (horizon <= MaxDays \/ runs["app"] = 0) /\ Generate("app")

\* any other call that consumes random numbers, between two invocations
OtherDraw ==
    /\ others < MaxOthers
    /\ rng' = Advance(rng)
    /\ others' = others + 1
    /\ UNCHANGED <<rowVars, horizon, returned, runs, dfVars, sessionVars>>

\* the process is started afresh: numpy initialises its generator from the system's
\* entropy (the tables of earlier sessions stay recorded for comparison)
NewSession ==
    /\ \E s \in 0..MaxSeed : s # rng /\ rng' = s
    /\ UNCHANGED <<rowVars, horizon, returned, runs, others, dfVars, sessionVars>>

\* both generators over the first 1..MaxDays days of their ranges, and the generator
\* of app.py over its whole range
InitGen ==
    /\ RowIdle /\ DfIdle /\ SessionIdle
    /\ rng \in 0..MaxSeed
    /\ horizon \in (1..MaxDays) \cup {Len(DateRangeOf("app"))}
    /\ others = 0
    /\ returned = [g \in Generators |-> NoTable]
    /\ runs = [g \in Generators |-> 0]

NextGen ==
    \/ generate_comprehensive_data
    \/ generate_data
    \/ OtherDraw
    \/ NewSession

SpecGen == InitGen /\ [][NextGen]_vars

-----------------------------------------------------------------------------
(* Specification SpecRow: one loop iteration of either generator, for every  *)
(* combination and every value the draws can take.                          *)

\* the days at the ends of the year, of the in-app range and of the scenario windows
BoundaryDates ==
    {datetime(1, 1), datetime(2, 29), datetime(3, 1), datetime(3, 31), datetime(5, 31),
     datetime(6, 1), datetime(8, 31), datetime(9, 1), datetime(12, 31)}

Keys(ds, ps, rs, cs) ==
    [date : ds, product : Range(ps), region : Range(rs), company : Range(cs)]

InitRow ==
    /\ gen \in Generators
    /\ key \in IF gen = "comprehensive"
               THEN Keys(BoundaryDates \cap Range(date_range(1, 1, 12, 31)),
                         products, regions, companies)
               ELSE Keys(BoundaryDates \cap Range(date_range(1, 1, 3, 31)),
                         app_products, app_regions, app_companies)
    /\ row = NoRow
    /\ taken = NoRow
    /\ GenIdle /\ DfIdle /\ SessionIdle

\* the body of generate_comprehensive_data's innermost loop
ComprehensiveIteration ==
    /\ gen = "comprehensive" /\ row = NoRow
    /\ LET d == key.date
           p == key.product
           r == key.region
           c == key.company
       IN  \E zp \in IF PriceDraws(d, p, r, c) = 1 THEN ZValues ELSE {0} :
           \E k1 \in PoissonValues :
           \E k2 \in IF ComplaintBranch(d, p, r, c) = "none" THEN {0} ELSE PoissonValues :
           \E z1 \in ZValues :
           \E z2 \in IF ShareBranch(p, r, c) = "base" THEN {0} ELSE ZValues :
              /\ row' = ComprehensiveRow(d, p, r, c, zp, k1, k2, z1, z2)
              /\ taken' = [price |-> ScenarioBranch(d, p, r, c),
                           complaints |-> ComplaintBranch(d, p, r, c),
                           z |-> zp]
    /\ UNCHANGED <<gen, key, genVars, dfVars, sessionVars>>

\* the body of generate_data's innermost loop
DataIteration ==
    /\ gen = "app" /\ row = NoRow
    /\ \E zp \in ZValues : \E k \in PoissonValues : \E zs \in ZValues :
          /\ row' = DataRow(key.date, key.product, key.region, key.company, zp, k, zs)
          /\ taken' = [price |-> AppMultiplier(key.region, key.company),
                       complaints |-> "none", z |-> zp]
    /\ UNCHANGED <<gen, key, genVars, dfVars, sessionVars>>

NextRow == ComprehensiveIteration \/ DataIteration

SpecRow == InitRow /\ [][NextRow]_vars

-----------------------------------------------------------------------------
(* The six-rule list of the rule set as documented: first match wins *)

Labels == <<"unjustified price increase", "suspicious price drop (dumping)",
            "synchronized price change (collusion)", "geographic price disparity",
            "severe price volatility", "normal">>

InWindow(date, m1, d1, m2, d2) == date >= datetime(m1, d1) /\ date <= datetime(m2, d2)

Rule1(k) == k.region = "Riyadh" /\ k.company = "National Food Co."
            /\ InWindow(k.date, 6, 1, 8, 31)
Rule2(k) == k.region = "Jeddah" /\ k.company = "Modern Marketing Est."
            /\ InWindow(k.date, 3, 1, 5, 31)
Rule3(k) == k.product \in {"sugar", "flour"} /\ k.date >= datetime(9, 1)
            /\ k.company \in {"Integrated Distribution Co.", "Central Markets Group",
                              "United Consumer Co."}
Rule4(k) == k.region = "Hail" /\ k.product = "cooking oil"
Rule5(k) == k.company = "Comprehensive Supply Group" /\ k.product = "coffee"

FirstRule(k) ==
    IF Rule1(k) THEN 1 ELSE IF Rule2(k) THEN 2 ELSE IF Rule3(k) THEN 3
    ELSE IF Rule4(k) THEN 4 ELSE IF Rule5(k) THEN 5 ELSE 6

ComprehensiveDone == gen = "comprehensive" /\ row # NoRow
DataDone == gen = "app" /\ row # NoRow

\* C1: every row's scenario_type is the label of the first matching rule of the
\* six-rule list, the rule whose price effect apply_scenarios applied; the label
\* "unjustified price increase", the x1.4 multiplier and the extra Poisson(5)
\* complaints go to exactly the rows of (Riyadh, National Food Co., Jun 1..Aug 31),
\* the dumping label and the x0.6 multiplier to exactly those of (Jeddah, Modern
\* Marketing Est., Mar 1..May 31).
C1_LabelIsAppliedRule ==
    ComprehensiveDone =>
        /\ row.scenario_type = Labels[FirstRule(key)]
        /\ row.scenario_type = Labels[taken.price]
        /\ (row.scenario_type = Labels[1] <=> Rule1(key))
        /\ (taken.price = 1 <=> Rule1(key))
        /\ (taken.complaints = "poisson5" <=> Rule1(key))
        /\ (row.scenario_type = Labels[2] <=> Rule2(key))
        /\ (taken.price = 2 <=> Rule2(key))

\* C3: every row of either generator has price >= 0.5 x base price (so price > 0),
\* 1 <= market_share <= 50 and complaint_count >= 0, after rounding, whatever the
\* draws (prices and shares in hundredths, base prices in tenths).
C3_RowRanges ==
    row # NoRow =>
        /\ row.price >= 5 * base_prices[row.product]
        /\ row.price > 0
        /\ row.market_share >= 100 /\ row.market_share <= 5000
        /\ row.complaint_count >= 0

\* C3 witness: the severe-volatility branch drew a multiplier below zero and the
\* row's price sits on the floor.
C3_Witness ==
    /\ ComprehensiveDone
    /\ taken.price = 5
    /\ 100000 + 20 * taken.z < 0
    /\ row.price = 5 * base_prices[row.product]

\* C4: a combination under rule 1's conditions is labelled "unjustified price
\* increase" whatever lower rule it also matches; every combination gets exactly one
\* label of the six; and the label is "normal" when none of the five special rules
\* matches.
C4_PrecedenceAndTotality ==
    ComprehensiveDone =>
        /\ (Rule1(key) => row.scenario_type = Labels[1])
        /\ row.scenario_type \in Range(Labels)
        /\ (FirstRule(key) = 6 => row.scenario_type = "normal")

-----------------------------------------------------------------------------
(* The generated tables *)

KeyOf(r) == [date |-> r.date, product |-> r.product, region |-> r.region,
             company |-> r.company]

Returned(g) == returned[g] # NoTable

\* the combinations of a generator's date range (as far as the model iterates it)
\* and its configured enumerations
CrossProduct(g) ==
    Keys(Range(Truncate(DateRangeOf(g), horizon)), Products(g), Regions(g), Companies(g))

\* C2: in the table either generator returns, every (date, product, region, company)
\* combination of the date range and the enumerations is the key of exactly one row:
\* the row count is |dates| x |products| x |regions| x |companies| and no key repeats.
C2_CrossProductOnce ==
    \A g \in Generators :
        Returned(g) =>
            LET t == returned[g]
            IN  /\ Len(t) = Len(Truncate(DateRangeOf(g), horizon)) * Len(Products(g))
                              * Len(Regions(g)) * Len(Companies(g))
                /\ {KeyOf(t[i]) : i \in DOMAIN t} = CrossProduct(g)
                /\ Cardinality({KeyOf(t[i]) : i \in DOMAIN t}) = Len(t)

\* C2 witness: both generators have returned a table over several dates.
C2_Witness ==
    /\ Returned("comprehensive") /\ Returned("app")
    /\ horizon >= 2
    /\ Len(returned["comprehensive"]) = horizon * 8 * 8 * 8
    /\ Len(returned["app"]) = horizon * 5 * 5 * 4

\* C5: a generator's later invocation returns the very table its earlier invocation
\* returned, whatever was drawn from the random generator in between and in
\* whatever session.
C5_SameTableEveryRun ==
    [][\A g \in Generators :
          returned[g] # NoTable => returned'[g] = returned[g]]_vars

\* C5 witness: a generator has returned twice, with other draws taken from the
\* random generator, and another generator's run, not excluded in between.
C5_Witness ==
    /\ runs["app"] = 2
    /\ others > 0
    /\ Len(returned["app"]) > 0
    /\ \E i, j \in DOMAIN returned["app"] :
          returned["app"][i].complaint_count # returned["app"][j].complaint_count

-----------------------------------------------------------------------------
(* Frames: a DataFrame is the sequence of its rows, each row the record of   *)
(* its columns; a price is a whole number of hundredths.                     *)

\* the float NaN that pandas returns for a statistic that is undefined
NaN == [nan |-> TRUE]

\* df[c]
Column(frame, c) == [i \in DOMAIN frame |-> frame[i][c]]

\* a slip: the frame is rebuilt from the new column alone
WithColumn_alone(r, c, v) == [f \in {c} |-> v]

\* df[c] = values, in place: the column is added, or overwritten
WithColumn(r, c, v) == [f \in DOMAIN r \cup {c} |-> IF f = c THEN v ELSE r[f]]

RECURSIVE SumTo(_, _)
SumTo(xs, n) == IF n = 0 THEN 0 ELSE xs[n] + SumTo(xs, n - 1)

\* Series.mean(): NaN over no value, else the exact quotient sum / count
mean(xs) == IF Len(xs) = 0 THEN NaN ELSE [sum |-> SumTo(xs, Len(xs)), count |-> Len(xs)]

\* count x the sum of the squared deviations from the mean, which is the sum of
\* (x_i - x_j)^2 over the pairs i < j
Squares(xs) ==
    SumTo([i \in DOMAIN xs |->
              SumTo([j \in DOMAIN xs |-> (xs[i] - xs[j]) * (xs[i] - xs[j])], Len(xs))],
          Len(xs)) \div 2

\* Series.std(): the sample deviation (ddof = 1), NaN over fewer than two values;
\* its square is squares / (count x (count - ddof))
std(xs) ==
    IF Len(xs) <= 1 THEN NaN ELSE [squares |-> Squares(xs), count |-> Len(xs), ddof |-> 1]

\* price_mean + 2 * price_std: NaN as soon as one operand is
Threshold(price_mean, price_std) ==
    IF price_mean = NaN \/ price_std = NaN
    THEN NaN
    ELSE [mean |-> price_mean, std |-> price_std, factor |-> 2]

\* a * b > c * d for a, d >= 0 and b, c > 0, without forming the products
ProductGreater(a, b, c, d) ==
    \/ a \div c > d \div b
    \/ a \div c = d \div b /\ (a % c) * b > (d % b) * c

\* a slip: >= for >
Exceeds_inclusive(price, threshold) ==
    /\ threshold # NaN
    /\ LET n == threshold.mean.count
           k == threshold.factor
           D == n * price - threshold.mean.sum
       IN  /\ D >= 0
           /\ ~ProductGreater(threshold.std.squares, k * k * n,
                              n - threshold.std.ddof, D * D)

\* a slip: "not (price <= threshold)", true against NaN
Exceeds_notle(price, threshold) ==
    \/ threshold = NaN
    \/ LET n == threshold.mean.count
           k == threshold.factor
           D == n * price - threshold.mean.sum
       IN  /\ D > 0
           /\ ProductGreater(D * D, n - threshold.std.ddof, k * k * n,
                             threshold.std.squares)

\* price > threshold, exactly: false against NaN; else, with D = count x (price - mean),
\* D > 0 and D^2 x (count - ddof) > factor^2 x count x squares
Exceeds(price, threshold) ==
    /\ threshold # NaN
    /\ LET n == threshold.mean.count
           k == threshold.factor
           D == n * price - threshold.mean.sum
       IN  /\ D > 0
           /\ ProductGreater(D * D, n - threshold.std.ddof, k * k * n,
                             threshold.std.squares)

\* detect_anomalies_simple(df): the frame it was given, with the column is_anomaly
detect_anomalies_simple(frame) ==
    LET threshold == Threshold(mean(Column(frame, "price")), std(Column(frame, "price")))
    IN  [i \in DOMAIN frame |->
            WithColumn(frame[i], "is_anomaly", Exceeds(frame[i].price, threshold))]

-----------------------------------------------------------------------------
(* Specification SpecDetect: detect_anomalies_simple on every small table of *)
(* prices and on synthetic columns with one outlier.                          *)

MaxRows == 7
SyntheticRows == 31

PriceValues == {100, 101, 500}
OutlierValues == {104, 200}

PriceTable(xs) == [i \in DOMAIN xs |-> [price |-> xs[i]]]

SmallTables ==
    UNION {{PriceTable(xs) : xs \in [1..n -> PriceValues]} : n \in 0..MaxRows}

\* n prices alternating around 100, with the outlier hi at position pos
Synthetic(n, pos, hi) ==
    PriceTable([i \in 1..n |-> IF i = pos THEN hi ELSE IF i % 2 = 0 THEN 99 ELSE 101])

SyntheticTables ==
    {Synthetic(SyntheticRows, pos, hi) : pos \in 1..SyntheticRows, hi \in OutlierValues}

InitDetect ==
    /\ df \in SmallTables \cup SyntheticTables
    /\ result = NoResult
    /\ RowIdle /\ GenIdle /\ SessionIdle

\* a call detect_anomalies_simple(df): df gets the column in place and is returned
DetectCall ==
    /\ result = NoResult
    /\ df' = detect_anomalies_simple(df)
    /\ result' = df'
    /\ UNCHANGED <<rowVars, genVars, sessionVars>>

NextDetect == DetectCall

SpecDetect == InitDetect /\ [][NextDetect]_vars

Detected == result # NoResult

\* the prices of df, their count, sum and sum of squares
Prices == Column(df, "price")
Count == Len(df)
Total == SumTo(Prices, Count)
TotalOfSquares == SumTo([i \in DOMAIN df |-> df[i].price * df[i].price], Count)

\* Count^2 x the population variance, and Count x the deviation of row i
Spread == Count * TotalOfSquares - Total * Total
Deviation(i) == Count * df[i].price - Total

\* price_i > mean + k x stddev and |price_i - mean| <= k x stddev, for the sample
\* deviation stddev = sqrt(Spread / (Count x (Count - 1)))
AboveSigmas(i, k) ==
    /\ Count >= 2
    /\ Deviation(i) > 0
    /\ Deviation(i) * Deviation(i) * (Count - 1) > k * k * Count * Spread
AtLeastSigmas(i, k) ==
    /\ Count >= 2
    /\ Deviation(i) > 0
    /\ Deviation(i) * Deviation(i) * (Count - 1) >= k * k * Count * Spread
WithinSigmas(i, k) ==
    /\ Count >= 2
    /\ Deviation(i) * Deviation(i) * (Count - 1) <= k * k * Count * Spread

Flagged == {i \in DOMAIN df : df[i].is_anomaly}

OneOutlier(i) == AtLeastSigmas(i, 5) /\ \A j \in DOMAIN df \ {i} : WithinSigmas(j, 1)

\* C7: after detect_anomalies_simple, the rows flagged is_anomaly are exactly those
\* whose price is strictly greater than mean + 2 x stddev of the table's prices; so
\* when one price lies 5 stddev or more above the mean and every other price within
\* 1 stddev of it, that row alone is flagged.
C7_FlagsAboveTwoSigma ==
    Detected =>
        /\ \A i \in DOMAIN df : df[i].is_anomaly <=> AboveSigmas(i, 2)
        /\ \A i \in DOMAIN df : OneOutlier(i) => Flagged = {i}

\* C7 witness: a synthetic column with one price 5 stddev above the mean and the
\* others within 1 stddev has been through the detector, which flagged that row.
C7_Witness ==
    /\ Detected
    /\ Count = SyntheticRows
    /\ \E i \in DOMAIN df : OneOutlier(i) /\ df[i].is_anomaly /\ Cardinality(Flagged) = 1

\* C10: on an empty table and on a one-row table, detect_anomalies_simple returns
\* the table with the column is_anomaly and no row flagged.
C10_NoFlagOnDegenerateTable ==
    (Detected /\ Count <= 1) =>
        /\ result = df
        /\ \A i \in DOMAIN df : "is_anomaly" \in DOMAIN df[i] /\ ~df[i].is_anomaly

\* C10 witness: the detector has returned a one-row table, unflagged.
C10_Witness ==
    /\ Detected
    /\ Count = 1
    /\ ~df[1].is_anomaly


-----------------------------------------------------------------------------
(* The insight extractor *)

\* price > m * 1.3 for a mean m, exactly: false against NaN
ExceedsMeanBy(price, m, tenths) ==
    /\ m # NaN
    /\ 10 * price * m.count > tenths * m.sum

\* a slip: Series.tolist() without unique()
unique_missing(xs) == xs

\* the positions at which a value occurs for the first time
FirstOccurrences(xs) == {i \in DOMAIN xs : \A j \in 1..(i - 1) : xs[j] # xs[i]}

\* the values at the positions ps, in the order of the positions
Taken(xs, ps) ==
    [k \in 1..Cardinality(ps) |->
        xs[CHOOSE i \in ps : Cardinality({j \in ps : j < i}) = k - 1]]

\* Series.unique().tolist(): the values in the order of their first occurrence
unique(xs) == Taken(xs, FirstOccurrences(xs))

\* the dict appended to insights; its description is the text around len(high_price_data)
Insight(high_price_data) ==
    [type |-> "warning",
     title |-> "unjustified price increase",
     description |-> Len(high_price_data),
     companies |-> unique(Column(high_price_data, "company")),
     products |-> unique(Column(high_price_data, "product")),
     regions |-> unique(Column(high_price_data, "region"))]

HighPriceData(frame, normal_mean) ==
    SelectSeq(frame, LAMBDA r : /\ r.scenario_type = "unjustified price increase"
                                /\ ExceedsMeanBy(r.price, normal_mean, 13))

Insights(high_price_data) ==
    IF Len(high_price_data) # 0 THEN <<Insight(high_price_data)>> ELSE <<>>

get_analysis_insights(frame) ==
    Insights(HighPriceData(frame,
        mean(Column(SelectSeq(frame, LAMBDA r : r.scenario_type = "normal"), "price"))))

-----------------------------------------------------------------------------
(* Specification SpecInsights: get_analysis_insights on every small table *)

MaxInsightRows == 3

InsightLabels == {"unjustified price increase", "normal", "suspicious price drop (dumping)"}
InsightPrices == {100, 130, 140}
InsightPlaces ==
    {[company |-> "National Food Co.", product |-> "sugar", region |-> "Riyadh"],
     [company |-> "National Food Co.", product |-> "rice", region |-> "Jeddah"]}

InsightRows ==
    {[company |-> w.company, product |-> w.product, region |-> w.region,
      price |-> x, scenario_type |-> l] :
        w \in InsightPlaces, x \in InsightPrices, l \in InsightLabels}

InitInsights ==
    /\ df \in UNION {[1..n -> InsightRows] : n \in 0..MaxInsightRows}
    /\ result = NoResult
    /\ RowIdle /\ GenIdle /\ SessionIdle

\* a call get_analysis_insights(df)
InsightsCall ==
    /\ result = NoResult
    /\ result' = get_analysis_insights(df)
    /\ UNCHANGED <<df, rowVars, genVars, sessionVars>>

NextInsights == InsightsCall

SpecInsights == InitInsights /\ [][NextInsights]_vars

Analysed == result # NoResult

NormalRows == {i \in DOMAIN df : df[i].scenario_type = "normal"}
NormalTotal ==
    SumTo([i \in DOMAIN df |-> IF i \in NormalRows THEN df[i].price ELSE 0], Len(df))

\* the rows labelled "unjustified price increase" whose price is above 1.3 x the
\* mean price of the rows labelled "normal"
Qualifying ==
    {i \in DOMAIN df :
        /\ df[i].scenario_type = Labels[1]
        /\ NormalRows # {}
        /\ 10 * df[i].price * Cardinality(NormalRows) > 13 * NormalTotal}

Distinct(xs, values) == Range(xs) = values /\ Len(xs) = Cardinality(values)

\* C9: get_analysis_insights returns at most one alert; none when no row is labelled
\* "unjustified price increase", and none when no such row is priced above 1.3 x the
\* mean of the "normal" rows (no "normal" row at all included); else exactly one,
\* whose count is the number of qualifying rows and whose companies, products and
\* regions are the distinct values of those rows.
C9_OneAlertOverQualifyingRows ==
    Analysed =>
        /\ Len(result) <= 1
        /\ (\A i \in DOMAIN df : df[i].scenario_type # Labels[1]) => result = <<>>
        /\ NormalRows = {} => result = <<>>
        /\ Qualifying = {} => result = <<>>
        /\ Qualifying # {} =>
              /\ Len(result) = 1
              /\ result[1].description = Cardinality(Qualifying)
              /\ Distinct(result[1].companies, {df[i].company : i \in Qualifying})
              /\ Distinct(result[1].products, {df[i].product : i \in Qualifying})
              /\ Distinct(result[1].regions, {df[i].region : i \in Qualifying})

\* C9 witness: an alert over two qualifying rows of one company and two products, in
\* a table with a "normal" row.
C9_Witness ==
    /\ Analysed
    /\ Len(result) = 1
    /\ Cardinality(Qualifying) = 2
    /\ result[1].description = 2
    /\ Len(result[1].companies) = 1
    /\ Len(result[1].products) = 2


-----------------------------------------------------------------------------
(* Specification SpecSession: the reruns of main() in one session of the      *)
(* dashboard, one per interaction with the sidebar.                           *)

analysis_types == <<"overview", "price analysis", "anomaly detection", "reports">>

\* @st.cache_data around load_data(): the first call runs generate_data and stores
\* what it returned; every call hands the caller a copy of the stored table
load_data(cache, s, n) ==
    IF cache = NoTable
    THEN LET st == Generated("app", s, n)
         IN  [cache |-> st.data, data |-> st.data, rng |-> st.rng]
    ELSE [cache |-> cache, data |-> cache, rng |-> s]

\* data[(data['product'] == selected_product) & (data['region'] == selected_region)]:
\* a new frame of the rows the mask keeps
Filtered(data, selected_product, selected_region) ==
    SelectSeq(data, LAMBDA r : r.product = selected_product /\ r.region = selected_region)

\* the dispatch on analysis_type: of the four views only display_anomaly_detection
\* writes to the frame it is given
Displayed(analysis_type, frame) ==
    IF analysis_type = "anomaly detection" THEN detect_anomalies_simple(frame) ELSE frame

Selection(analysis_type, selected_product, selected_region) ==
    [analysis_type |-> analysis_type, product |-> selected_product,
     region |-> selected_region]

\* the locals of main() once it has run on what load_data handed it
Shown(loaded, analysis_type, selected_product, selected_region) ==
    /\ cached' = loaded.cache
    /\ rng' = loaded.rng
    /\ main_data' = loaded.data
    /\ filtered_data' = Displayed(analysis_type,
                                  Filtered(loaded.data, selected_product, selected_region))
    /\ view' = Selection(analysis_type, selected_product, selected_region)

Selected(loaded) ==
    \E analysis_type \in Range(analysis_types) :
    \E selected_product \in Range(unique(Column(loaded.data, "product"))) :
    \E selected_region \in Range(unique(Column(loaded.data, "region"))) :
        Shown(loaded, analysis_type, selected_product, selected_region)

\* one run of main(), with whatever the user selected in the sidebar
main ==
    /\ Selected(load_data(cached, rng, horizon))
    /\ UNCHANGED <<rowVars, horizon, returned, runs, others, dfVars>>

InitSession ==
    /\ SessionIdle
    /\ RowIdle /\ DfIdle
    /\ rng \in 0..MaxSeed
    /\ horizon \in 1..MaxDays
    /\ others = 0
    /\ returned = [g \in Generators |-> NoTable]
    /\ runs = [g \in Generators |-> 0]

NextSession == main

SpecSession == InitSession /\ [][NextSession]_vars

Loaded == cached # NoTable

Columns(r) == DOMAIN r

\* the rows of the held table that the last selection keeps
Kept == SelectSeq(cached, LAMBDA r : r.product = view.product /\ r.region = view.region)

\* C8: whatever the sequence of reruns, the table load_data holds is the generator's
\* output, row for row, without an is_anomaly column; the frame main filtered has the
\* rows of the selection, every column of them unchanged, and the column is_anomaly
\* besides exactly when the anomaly view ran.
C8_HeldTableUntouched ==
    Loaded =>
        /\ cached = Generated("app", rng, horizon).data
        /\ \A i \in DOMAIN cached : "is_anomaly" \notin Columns(cached[i])
        /\ main_data = cached
        /\ Len(filtered_data) = Len(Kept)
        /\ \A i \in DOMAIN Kept :
              /\ Columns(filtered_data[i]) =
                    Columns(Kept[i]) \cup IF view.analysis_type = "anomaly detection"
                                          THEN {"is_anomaly"} ELSE {}
              /\ \A c \in Columns(Kept[i]) : filtered_data[i][c] = Kept[i][c]

\* C8 witness: the anomaly view has run on a selection: the filtered frame carries
\* the flag, a row of it flagged or not, and the held table does not.
C8_Witness ==
    /\ Loaded
    /\ view.analysis_type = "anomaly detection"
    /\ Len(filtered_data) = horizon * Len(app_companies)
    /\ horizon >= 2
    /\ \A i \in DOMAIN filtered_data : "is_anomaly" \in Columns(filtered_data[i])
    /\ \A i \in DOMAIN cached : "is_anomaly" \notin Columns(cached[i])

====
